---- MODULE Spec2Model ----
(***************************************************************************)
(* Model of the animal-breed-identifier application:                       *)
(*   - the persistence layer AnimalDB (src/services/db.ts) and the         *)
(*     handlers that write to it (AnimalDB.seedAdmin, Signup.handleSubmit);*)
(*   - the session and view controller App (src/App.tsx) with Navigation,  *)
(*     Login and Signup;                                                   *)
(*   - the Dashboard (src/components/Dashboard.tsx);                       *)
(*   - the AI adapter (src/services/geminiService.ts), from the response   *)
(*     of the external service on.                                         *)
(*                                                                         *)
(* The IndexedDB database is two object stores keyed by `id`:              *)
(*   users  with a unique index on email,                                  *)
(*   scans  with non-unique indexes on userId and timestamp.               *)
(* Every AnimalDB method is `await this.init()` followed by one request in *)
(* a transaction of its own.  The synchronous part of init() runs when the *)
(* method is called; the request runs in a later step, so requests of      *)
(* concurrent callers interleave.                                          *)
(*                                                                         *)
(* One tab is modelled with its screen (caller AppProc and the handlers    *)
(* DashProcs); the callers in Procs are other users of the same database,  *)
(* of which only the store requests are modelled.                          *)
(***************************************************************************)
EXTENDS Integers, Sequences, FiniteSets, TLC

VARIABLES
    users,      \* object store 'users': a set of User records, one per id
    scans,      \* object store 'scans': a set of BreedResult records, one per id
    dbHandle,   \* AnimalDB.db: "null" or "open"
    opens,      \* number of indexedDB.open requests issued so far (capped)
    task,       \* per caller: the handler it runs and where it stands
    ret,        \* the store request completed last: its handler, method, argument, outcome
    pre,        \* the two object stores as they were when that request started
    currentUser,    \* App state: <<>> (null) or <<user>>
    view,           \* App state: 'landing' | 'login' | 'signup' | 'dashboard' | 'admin'
    isInitializing, \* App state
    pointer,        \* localStorage slot 'animal_id_uid': <<>> (absent) or <<id>>
    error,          \* `error` of the Login or Signup form on screen; "" when none
    dash,           \* the state of the mounted Dashboard component
    ai              \* the AI adapter call that returned last: function, response, result

\* The screen of the tab that is modelled in full.
appVars == <<currentUser, view, isInitializing, pointer, error>>

\* The Dashboard of that tab and the AI adapter it calls.
dashVars == <<dash, ai>>

vars == <<users, scans, dbHandle, opens, task, ret, pre, appVars, dashVars>>

----------------------------------------------------------------------------
(* Bounds *)

MaxTime == 2        \* timestamps are the instants 1..MaxTime
MaxOpens == 3       \* indexedDB.open requests counted up to this many
MaxCart == 2        \* purchases are made while the cart holds fewer entries

----------------------------------------------------------------------------
(* Data: src/types.ts *)

Procs == {"p1", "p2"}
\* The caller whose screen is modelled; the callers in Procs are other tabs, of
\* which only the store requests are modelled.
AppProc == "app"
\* The handlers of the Dashboard of that tab, one pending run of each.
DashProcs == {"load", "identify", "purchase", "return", "health", "listen"}
AllProcs == Procs \cup {AppProc} \cup DashProcs

UserRole == {"USER", "ADMIN"}

AdminEmail == "admin@breedfinder.com"
AdminId == "admin-1"

\* Ids that Math.random().toString(36).substr(2, 9) can yield: never 'admin-1'.
RandomIds == {"u1", "u2"}
UserIds == RandomIds \cup {AdminId}
\* Key order of the users store (keys compare as strings).
UserIdOrder == <<"admin-1", "u1", "u2">>

\* Emails differing only in case are different keys of the email index.
Emails == {"a@x.com", "A@x.com", AdminEmail}
Names == {"Ann", "Bob"}
\* The name each caller types into the signup form.
FormName == [p \in Procs |-> IF p = "p1" THEN "Ann" ELSE "Bob"]

\* The values of `new Date().toISOString()`: two instants.
Instants == {"t1", "t2"}

User ==
    [id : UserIds, name : Names, email : Emails, role : UserRole,
     createdAt : Instants]

\* An administrator record whose email is spelt unlike the one looked up.
AdminUserMiscased ==
    [id |-> AdminId, name |-> "System Administrator",
     email |-> "Admin@breedfinder.com", role |-> "ADMIN", createdAt |-> "t1"]

AdminUser ==
    [id |-> AdminId, name |-> "System Administrator", email |-> AdminEmail,
     role |-> "ADMIN", createdAt |-> "t1"]

\* The record seedAdmin builds at the instant t.
AdminUserAt(t) == [AdminUser EXCEPT !.createdAt = t]

ScanIdOrder == <<"s1", "s2", "s3">>
ScanIds == {ScanIdOrder[i] : i \in 1..Len(ScanIdOrder)}
Timestamps == 1..MaxTime

\* One health analysis (HealthAnalysisResponse): an embedded sub-record.
HealthAnalysisResponse ==
    {[isHealthy |-> FALSE, summary |-> "limping", potentialIssues |-> <<"paw">>]}

\* An optional field is a sequence of length 0 (absent) or 1 (present).
Optional(S) == {<<>>} \cup {<<x>> : x \in S}

\* The data URLs of the photos a user can select.
Images == {"img1", "img2"}

BreedResult ==
    [id : ScanIds, userId : RandomIds, imageUrl : Images, timestamp : Timestamps,
     healthAnalysis : Optional(HealthAnalysisResponse),
     isPurchased : Optional(BOOLEAN)]

Ids(coll) == {r.id : r \in coll}

----------------------------------------------------------------------------
(* Object-store requests *)

\* The records of a collection in key order, as getAll() yields them.
RECURSIVE InKeyOrder(_, _)
InKeyOrder(coll, order) ==
    IF order = <<>> THEN <<>>
    ELSE LET here == {r \in coll : r.id = Head(order)}
         IN  (IF here = {} THEN <<>> ELSE <<CHOOSE r \in here : TRUE>>)
             \o InKeyOrder(coll, Tail(order))

\* new Date(timestamp).getTime(): a timestamp is the ISO-8601 string that
\* toISOString() gave for an instant; parsing it gives the instant back.
GetTime(timestamp) == timestamp

\* A comparator with its operands exchanged: oldest first.
ByTimestampAsc(a, b) == GetTime(a.timestamp) - GetTime(b.timestamp)

\* The comparator (a, b) => getTime(b) - getTime(a).
ByTimestampDesc(a, b) == GetTime(b.timestamp) - GetTime(a.timestamp)

\* Array.prototype.sort is stable: x goes behind every element that the
\* comparator does not put after it.
RECURSIVE InsertSorted(_, _)
InsertSorted(x, s) ==
    IF s = <<>> THEN <<x>>
    ELSE IF ByTimestampDesc(Head(s), x) <= 0
         THEN <<Head(s)>> \o InsertSorted(x, Tail(s))
         ELSE <<x>> \o s

RECURSIVE SortScans(_)
SortScans(s) ==
    IF s = <<>> THEN <<>>
    ELSE InsertSorted(s[Len(s)], SortScans(SubSeq(s, 1, Len(s) - 1)))

\* The index lookup alone, in key order.
GetUserScansUnsorted(coll, userId) ==
    InKeyOrder({r \in coll : r.userId = userId}, ScanIdOrder)

\* index('userId').getAll(userId), then the sort.
GetUserScans(coll, userId) ==
    SortScans(InKeyOrder({r \in coll : r.userId = userId}, ScanIdOrder))

\* store.getAll(), then the sort.
GetAllScans(coll) == SortScans(InKeyOrder(coll, ScanIdOrder))

GetAllUsers(coll) == InKeyOrder(coll, UserIdOrder)

\* request.result as it is: undefined when nothing is found.
OrUndefined(found) ==
    IF found = {} THEN <<"undefined">> ELSE <<CHOOSE r \in found : TRUE>>

\* request.result || null
OrNull(found) == IF found = {} THEN <<>> ELSE <<CHOOSE r \in found : TRUE>>

GetUser(coll, id) == OrNull({r \in coll : r.id = id})

\* A lookup that folds the case of the email before comparing.
LowerCase(email) == IF email = "A@x.com" THEN "a@x.com" ELSE email
GetUserByEmailIgnoringCase(coll, email) ==
    OrNull({r \in coll : LowerCase(r.email) = LowerCase(email)})

\* index('email').get(email): the key is compared as it is.
GetUserByEmail(coll, email) == OrNull({r \in coll : r.email = email})

\* An email index created without `unique: true` refuses nothing.
EmailIndexNotUnique(coll, user) == FALSE

\* The unique index on email refuses a record whose email is the key of a
\* record with another primary key.
EmailIndexRefuses(coll, user) ==
    \E r \in coll : r.email = user.email /\ r.id # user.id

\* A put that keeps the record already stored under the key.
PutKeepsOld(coll, record) ==
    IF record.id \in Ids(coll) THEN coll ELSE coll \cup {record}

\* store.put(record): insert, or replace the record with the same key.
Put(coll, record) == {r \in coll : r.id # record.id} \cup {record}

\* store.clear() in the place of store.delete(id).
DeleteClears(coll, id) == {}

\* store.delete(id)
Delete(coll, id) == {r \in coll : r.id # id}

\* A saveScan that stores the scan without its optional fields.
SaveScanWithoutOptional(coll, scan) ==
    Put(coll, [scan EXCEPT !.healthAnalysis = <<>>, !.isPurchased = <<>>])

\* saveScan: store.put(scan) keeps every field of the scan.
SaveScanStore(coll, scan) == Put(coll, scan)

----------------------------------------------------------------------------
(* Callers *)

Idle == [prog |-> "none", step |-> "none", phase |-> "none", loc |-> <<>>]
Boot == [prog |-> "boot", step |-> "none", phase |-> "none", loc |-> <<>>]

\* Dashboard state as useState initialises it.  `playing` counts the buffer
\* sources that have been started and have not ended.  `stale` names, for each
\* handler that is pending for a Dashboard that has left the screen, the user
\* of that Dashboard ("" for the other handlers); `alert` is the last
\* window.alert.
NoDashboard ==
    [selectedImage |-> <<>>, currentResult |-> <<>>, healthAnalysis |-> <<>>,
     shoppingCart |-> <<>>, error |-> <<>>, isUploading |-> FALSE,
     isAnalyzingHealth |-> FALSE, isPlayingAudio |-> FALSE, playing |-> 0,
     alert |-> "", stale |-> [p \in DashProcs |-> ""]]

NoResult == [ok |-> TRUE, val |-> <<>>, err |-> ""]
NoCall == [fn |-> "none", response |-> <<>>, result |-> NoResult]

NoRet == [by |-> "none", op |-> "none", arg |-> <<>>, ok |-> TRUE, val |-> <<>>]

Init ==
    /\ users = {}
    /\ scans = {}
    /\ dbHandle = "null"
    /\ opens = 0
    /\ task = [p \in AllProcs |-> Boot]
    /\ ret = NoRet
    /\ pre = [users |-> {}, scans |-> {}]
    /\ currentUser = <<>>
    /\ view = "landing"
    /\ isInitializing = TRUE
    /\ pointer = <<>>
    /\ error = ""
    /\ dash = NoDashboard
    /\ ai = NoCall

Snapshot == [users |-> users, scans |-> scans]

\* The synchronous part of init(): `if (this.db) return this.db`, else a new
\* indexedDB.open request is issued.
InitPhase == IF dbHandle = "open" THEN "req" ELSE "opening"
InitOpens == IF dbHandle = "open" THEN opens ELSE opens + 1
CanInit == dbHandle = "open" \/ opens < MaxOpens

\* A caller enters an AnimalDB method: init() runs up to its first await.
Entered(p, prog, step, loc) ==
    [task EXCEPT ![p] = [prog |-> prog, step |-> step, phase |-> InitPhase, loc |-> loc]]

Enter(p, prog, step, loc) ==
    /\ CanInit
    /\ task' = Entered(p, prog, step, loc)
    /\ opens' = InitOpens

Leave(p) == task' = [task EXCEPT ![p] = Idle]

\* request.onsuccess of the open request: this.db = request.result.
OpenSuccess(p) ==
    /\ task[p].phase = "opening"
    /\ dbHandle' = "open"
    /\ task' = [task EXCEPT ![p].phase = "req"]
    /\ UNCHANGED <<users, scans, opens, ret, pre, appVars, dashVars>>

Done(p, op, arg, ok, val) ==
    /\ ret' = [by |-> task[p].prog, op |-> op, arg |-> arg, ok |-> ok, val |-> val]
    /\ pre' = Snapshot

\* saveUser: the put request succeeds, or the email index refuses it and the
\* collection stays as it was.
SaveUserOk(coll, user) == ~EmailIndexRefuses(coll, user)
SaveUserStore(coll, user) == IF SaveUserOk(coll, user) THEN Put(coll, user) ELSE coll

\* A view chosen by every role alike.
HomeViewDashboard(user) == "dashboard"

\* user.role === UserRole.ADMIN ? 'admin' : 'dashboard'
HomeView(user) == IF user.role = "ADMIN" THEN "admin" ELSE "dashboard"

\* initApp of the modelled tab, after seedAdmin: the pointer slot is read and,
\* when it holds an id, getUser(id) is called; otherwise `finally` runs.
Restore(p) ==
    IF pointer = <<>>
    THEN /\ Leave(p)
         /\ isInitializing' = FALSE
         /\ UNCHANGED <<opens, currentUser, view, pointer, error>>
    ELSE /\ Enter(p, "initApp", "restore", pointer[1])
         /\ UNCHANGED appVars

AfterSeed(p) ==
    IF p = AppProc /\ task[p].prog = "initApp"
    THEN Restore(p)
    ELSE Leave(p) /\ UNCHANGED <<opens, appVars>>

\* An initApp whose catch is not followed by setIsInitializing(false).
InitFailedHangs(p) ==
    /\ Leave(p)
    /\ UNCHANGED <<opens, currentUser, view, pointer, error, isInitializing>>

\* initApp when a step rejects: catch logs, finally setIsInitializing(false).
InitFailed(p) ==
    /\ Leave(p)
    /\ isInitializing' = IF p = AppProc /\ task[p].prog = "initApp"
                         THEN FALSE ELSE isInitializing
    /\ UNCHANGED <<opens, currentUser, view, pointer, error>>

----------------------------------------------------------------------------
(* App.initApp: init, seedAdmin, then the session restore *)

StartApp(p) ==
    /\ task[p] = Boot
    /\ Enter(p, "initApp", "init", <<>>)
    /\ UNCHANGED <<users, scans, dbHandle, ret, pre, appVars, dashVars>>

InitDone(p) ==
    /\ task[p].prog = "initApp" /\ task[p].step = "init" /\ task[p].phase = "req"
    /\ Enter(p, "initApp", "seedGet", <<>>)
    /\ UNCHANGED <<users, scans, dbHandle, ret, pre, appVars, dashVars>>

(* AnimalDB.seedAdmin *)

CallSeedAdmin(p) ==
    /\ task[p] = Idle
    /\ Enter(p, "seedAdmin", "seedGet", <<>>)
    /\ UNCHANGED <<users, scans, dbHandle, ret, pre, appVars, dashVars>>

\* const existing = await this.getUserByEmail(adminEmail); if (!existing) saveUser(...)
SeedLookup(p) ==
    /\ task[p].step = "seedGet" /\ task[p].phase = "req"
    /\ LET existing == GetUserByEmail(users, AdminEmail)
       IN  /\ Done(p, "getUserByEmail", AdminEmail, TRUE, existing)
           /\ IF existing = <<>>
              THEN Enter(p, task[p].prog, "seedPut", <<>>) /\ UNCHANGED appVars
              ELSE AfterSeed(p)
    /\ UNCHANGED <<users, scans, dbHandle, dashVars>>

SeedPut(p) ==
    /\ task[p].step = "seedPut" /\ task[p].phase = "req"
    /\ \E t \in Instants :
          /\ users' = SaveUserStore(users, AdminUserAt(t))
          /\ Done(p, "saveUser", AdminUserAt(t), SaveUserOk(users, AdminUserAt(t)), <<>>)
    /\ IF SaveUserOk(users, AdminUser) THEN AfterSeed(p) ELSE InitFailed(p)
    /\ UNCHANGED <<scans, dbHandle, dashVars>>

\* const user = await db.getUser(storedUserId); if (user) { setCurrentUser(user);
\* setView(...) }; finally setIsInitializing(false).
RestoreLookup(p) ==
    /\ task[p].prog = "initApp" /\ task[p].step = "restore" /\ task[p].phase = "req"
    /\ LET user == GetUser(users, task[p].loc)
       IN  /\ Done(p, "getUser", task[p].loc, TRUE, user)
           /\ IF user # <<>>
              THEN currentUser' = user /\ view' = HomeView(user[1])
              ELSE UNCHANGED <<currentUser, view>>
    /\ isInitializing' = FALSE
    /\ Leave(p)
    /\ UNCHANGED <<users, scans, dbHandle, opens, pointer, error, dashVars>>

----------------------------------------------------------------------------
(* Signup.handleSubmit *)

Submit(p, email) ==
    /\ task[p] = Idle
    /\ Enter(p, "signup", "get", [email |-> email, name |-> FormName[p]])
    /\ UNCHANGED <<users, scans, dbHandle, ret, pre, appVars, dashVars>>

\* const existing = await db.getUserByEmail(email); if (existing) return;
\* otherwise newUser gets a random id and saveUser(newUser) is called.
SignupLookup(p) ==
    /\ task[p].prog = "signup" /\ task[p].step = "get" /\ task[p].phase = "req"
    /\ LET form == task[p].loc
           existing == GetUserByEmail(users, form.email)
       IN  /\ Done(p, "getUserByEmail", form.email, TRUE, existing)
           /\ IF existing # <<>>
              THEN Leave(p) /\ UNCHANGED opens
              ELSE \E id \in RandomIds : \E t \in Instants :
                     Enter(p, "signup", "put",
                           [id |-> id, name |-> form.name, email |-> form.email,
                            role |-> "USER", createdAt |-> t])
    /\ UNCHANGED <<users, scans, dbHandle, appVars, dashVars>>

\* await db.saveUser(newUser); onSignup(newUser) - or the catch branch.
SignupPut(p) ==
    /\ task[p].prog = "signup" /\ task[p].step = "put" /\ task[p].phase = "req"
    /\ users' = SaveUserStore(users, task[p].loc)
    /\ Done(p, "saveUser", task[p].loc, SaveUserOk(users, task[p].loc), <<>>)
    /\ Leave(p)
    /\ UNCHANGED <<scans, dbHandle, opens, appVars, dashVars>>

----------------------------------------------------------------------------
(* A caller of one AnimalDB method *)

CallApi(p) ==
    /\ task[p] = Idle
    /\ Enter(p, "api", "op", <<>>)
    /\ UNCHANGED <<users, scans, dbHandle, ret, pre, appVars, dashVars>>

Ready(p) == task[p].prog = "api" /\ task[p].phase = "req"

SaveUser(p, user) ==
    /\ Ready(p)
    /\ users' = SaveUserStore(users, user)
    /\ Done(p, "saveUser", user, SaveUserOk(users, user), <<>>)
    /\ Leave(p)
    /\ UNCHANGED <<scans, dbHandle, opens, appVars, dashVars>>

GetUserReq(p, id) ==
    /\ Ready(p)
    /\ Done(p, "getUser", id, TRUE, GetUser(users, id))
    /\ Leave(p)
    /\ UNCHANGED <<users, scans, dbHandle, opens, appVars, dashVars>>

GetUserByEmailReq(p, email) ==
    /\ Ready(p)
    /\ Done(p, "getUserByEmail", email, TRUE, GetUserByEmail(users, email))
    /\ Leave(p)
    /\ UNCHANGED <<users, scans, dbHandle, opens, appVars, dashVars>>

GetAllUsersReq(p) ==
    /\ Ready(p)
    /\ Done(p, "getAllUsers", <<>>, TRUE, GetAllUsers(users))
    /\ Leave(p)
    /\ UNCHANGED <<users, scans, dbHandle, opens, appVars, dashVars>>

SaveScan(p, scan) ==
    /\ Ready(p)
    /\ scans' = SaveScanStore(scans, scan)
    /\ Done(p, "saveScan", scan, TRUE, <<>>)
    /\ Leave(p)
    /\ UNCHANGED <<users, dbHandle, opens, appVars, dashVars>>

GetUserScansReq(p, userId) ==
    /\ Ready(p)
    /\ Done(p, "getUserScans", userId, TRUE, GetUserScans(scans, userId))
    /\ Leave(p)
    /\ UNCHANGED <<users, scans, dbHandle, opens, appVars, dashVars>>

GetAllScansReq(p) ==
    /\ Ready(p)
    /\ Done(p, "getAllScans", <<>>, TRUE, GetAllScans(scans))
    /\ Leave(p)
    /\ UNCHANGED <<users, scans, dbHandle, opens, appVars, dashVars>>

DeleteScan(p, id) ==
    /\ Ready(p)
    /\ scans' = Delete(scans, id)
    /\ Done(p, "deleteScan", id, TRUE, <<>>)
    /\ Leave(p)
    /\ UNCHANGED <<users, dbHandle, opens, appVars, dashVars>>

----------------------------------------------------------------------------
(* Storage failures, as IndexedDB reports them to the handlers AnimalDB sets *)

\* request.error / transaction.error
StorageErrors == {"QuotaExceededError", "UnknownError"}

\* The open request fires onerror: init() rejects with request.error, and with
\* it the method that awaited init().  this.db stays null.
OpenError(p, err) ==
    /\ task[p].prog = "api" /\ task[p].phase = "opening"
    /\ Done(p, "init", <<>>, FALSE, <<err>>)
    /\ Leave(p)
    /\ UNCHANGED <<users, scans, dbHandle, opens, appVars, dashVars>>

\* The call a step of initApp is waiting for.
InitCall(t) ==
    CASE t.phase = "opening" -> [op |-> "init", arg |-> <<>>]
      [] t.step = "seedGet" -> [op |-> "getUserByEmail", arg |-> AdminEmail]
      [] t.step = "seedPut" -> [op |-> "saveUser", arg |-> AdminUser]
      [] OTHER -> [op |-> "getUser", arg |-> t.loc]

\* A step of initApp rejects: the open request or the request of seedAdmin or
\* of the session restore fires onerror.  this.db and the stores stay as they
\* were.
InitRejects(p, err) ==
    /\ task[p].prog = "initApp"
    /\ \/ task[p].phase = "opening"
       \/ task[p].phase = "req" /\ task[p].step \in {"seedGet", "seedPut", "restore"}
    /\ Done(p, InitCall(task[p]).op, InitCall(task[p]).arg, FALSE, <<err>>)
    /\ InitFailed(p)
    /\ UNCHANGED <<users, scans, dbHandle, dashVars>>

\* The arguments a caller passes to the methods on scans.
ScanArgs(op) ==
    CASE op = "saveScan" ->
           {s \in BreedResult : /\ s.id = "s1" /\ s.userId = "u1" /\ s.timestamp = 1
                                /\ s.imageUrl = "img1"}
      [] op = "deleteScan" -> {"s1"}
      [] op = "getUserScans" -> {"u1"}
      [] op = "getAllScans" -> {<<>>}
ScanOps == {"saveScan", "deleteScan", "getUserScans", "getAllScans"}
WriteOps == {"saveScan", "deleteScan"}

\* The request fires onerror: the method rejects with request.error; the
\* transaction aborts and the store keeps its records.
RequestError(p, op, arg, err) ==
    /\ Ready(p)
    /\ Done(p, op, arg, FALSE, <<err>>)
    /\ Leave(p)
    /\ UNCHANGED <<users, scans, dbHandle, opens, appVars, dashVars>>

\* The put or delete request fires onsuccess, which resolves the method; the
\* transaction then fails to commit and aborts.  AnimalDB sets no handler on the
\* transaction, so nothing reaches the caller; the store keeps its records.
CommitAbort(p, op, arg) ==
    /\ Ready(p)
    /\ Done(p, op, arg, TRUE, <<>>)
    /\ Leave(p)
    /\ UNCHANGED <<users, scans, dbHandle, opens, appVars, dashVars>>

----------------------------------------------------------------------------
(* App: the session and view controller of the modelled tab *)

Views == {"landing", "login", "signup", "dashboard", "admin"}

\* renderContent: the component on screen for a view and a current user.
RenderContent(v, user) ==
    CASE v = "login" -> "Login"
      [] v = "signup" -> "Signup"
      [] v = "dashboard" -> IF user # <<>> THEN "Dashboard" ELSE "Login"
      [] v = "admin" ->
           IF user # <<>> /\ user[1].role = "ADMIN" THEN "AdminDashboard"
           ELSE "Dashboard"
      [] OTHER -> "LandingPage"

Screen == RenderContent(view, currentUser)

\* A handler of a form that has left the screen: its setError and setIsLoading
\* reach no mounted component any more.
Detached(t) ==
    IF t.prog \in {"Login", "Signup"} THEN [t EXCEPT !.loc.mounted = FALSE] ELSE t

\* The user whose Dashboard the pending handler p was started in: `user` in
\* the closure of the handler.
Owner(p) == IF dash.stale[p] # "" THEN dash.stale[p] ELSE currentUser[1].id

\* The Dashboard leaves the screen: its state is gone, its pending handlers
\* go on.
Unmounted ==
    [NoDashboard EXCEPT
       !.alert = dash.alert,
       !.stale = [p \in DashProcs |->
                    IF task[p].prog \in {"none", "boot"} THEN "" ELSE Owner(p)]]

\* The state of the components after the screen has become
\* RenderContent(v, user): a form that is replaced loses its `error`, a
\* Dashboard that is replaced loses its state.
Rerender(v, user) ==
    IF RenderContent(v, user) = Screen
    THEN UNCHANGED <<task, error, dash>>
    ELSE /\ error' = ""
         /\ task' = [task EXCEPT ![AppProc] = Detached(task[AppProc])]
         /\ dash' = IF Screen = "Dashboard" THEN Unmounted ELSE dash

\* A handleLogin that leaves the pointer slot alone.
HandleLoginNoPointer(user) ==
    /\ currentUser' = <<user>>
    /\ pointer' = pointer
    /\ view' = HomeView(user)

\* handleLogin
HandleLogin(user) ==
    /\ currentUser' = <<user>>
    /\ pointer' = <<user.id>>
    /\ view' = HomeView(user)

\* A handleLogout that leaves the pointer slot alone.
HandleLogoutNoPointer ==
    /\ currentUser' = <<>>
    /\ pointer' = pointer
    /\ view' = "landing"

\* A handleLogout that leaves the view alone.
HandleLogoutKeepsView ==
    /\ currentUser' = <<>>
    /\ pointer' = <<>>
    /\ view' = view

\* handleLogout
HandleLogout ==
    /\ currentUser' = <<>>
    /\ pointer' = <<>>
    /\ view' = "landing"

\* The views the Navigation bar can set.
NavTargets ==
    {"landing"} \cup (IF currentUser # <<>> THEN {HomeView(currentUser[1])}
                      ELSE {"login", "signup"})

\* The views the buttons of the component on screen can set.
ScreenTargets ==
    CASE Screen = "LandingPage" -> {"login"}
      [] Screen = "Login" -> {"signup", "landing"}
      [] Screen = "Signup" -> {"login", "landing"}
      [] OTHER -> {}

\* A click on a button bound to setView(v).
SetView(v) ==
    /\ ~isInitializing
    /\ v \in NavTargets \cup ScreenTargets
    /\ view' = v
    /\ Rerender(v, currentUser)
    /\ UNCHANGED <<users, scans, dbHandle, opens, ret, pre, currentUser,
                   isInitializing, pointer, ai>>

\* A click on Logout.
Logout ==
    /\ ~isInitializing
    /\ currentUser # <<>>
    /\ HandleLogout
    /\ Rerender("landing", <<>>)
    /\ UNCHANGED <<users, scans, dbHandle, opens, ret, pre, isInitializing, ai>>

\* The page is loaded anew: the stores and the pointer slot stay, the rest
\* starts over and pending handlers are gone.
Reload ==
    /\ task[AppProc] # Boot
    /\ task' = [task EXCEPT ![AppProc] = Boot]
    /\ dbHandle' = "null"
    /\ opens' = 0
    /\ currentUser' = <<>>
    /\ view' = "landing"
    /\ isInitializing' = TRUE
    /\ error' = ""
    /\ UNCHANGED <<users, scans, ret, pre, pointer, dashVars>>

----------------------------------------------------------------------------
(* Login.handleSubmit of the modelled tab *)

AdminPassword == "admin123"
Passwords == {AdminPassword, "abcdef", "abcde"}
\* password.length
PasswordLength(password) ==
    CASE password = "admin123" -> 8
      [] password = "abcdef" -> 6
      [] password = "abcde" -> 5

InvalidLoginMsg == "Invalid email or password."

\* setError(msg) of a pending handler: lost when its form left the screen.
SetError(msg) == error' = IF task[AppProc].loc.mounted THEN msg ELSE error

LoginSubmit(email, password) ==
    /\ ~isInitializing /\ Screen = "Login" /\ task[AppProc] = Idle
    /\ error' = ""
    /\ Enter(AppProc, "Login",
             IF email = AdminEmail /\ password = AdminPassword
             THEN "adminGet" ELSE "get",
             [email |-> email, password |-> password, mounted |-> TRUE])
    /\ UNCHANGED <<users, scans, dbHandle, ret, pre, currentUser, view,
                   isInitializing, pointer, dashVars>>

\* const adminUser = await db.getUserByEmail(admin); if (adminUser) { onLogin; return }
LoginAdmin ==
    /\ task[AppProc].prog = "Login" /\ task[AppProc].step = "adminGet"
    /\ task[AppProc].phase = "req"
    /\ LET adminUser == GetUserByEmail(users, AdminEmail)
       IN  /\ Done(AppProc, "getUserByEmail", AdminEmail, TRUE, adminUser)
           /\ IF adminUser # <<>>
              THEN /\ HandleLogin(adminUser[1])
                   /\ error' = ""
                   /\ Leave(AppProc)
                   /\ UNCHANGED opens
              ELSE /\ Enter(AppProc, "Login", "get", task[AppProc].loc)
                   /\ UNCHANGED <<currentUser, view, pointer, error>>
    /\ UNCHANGED <<users, scans, dbHandle, isInitializing, dashVars>>

\* A second lookup that lets the administrator in with the administrator's
\* password only.
LoginFindChecksPassword ==
    /\ task[AppProc].prog = "Login" /\ task[AppProc].step = "get"
    /\ task[AppProc].phase = "req"
    /\ LET foundUser == GetUserByEmail(users, task[AppProc].loc.email)
       IN  /\ Done(AppProc, "getUserByEmail", task[AppProc].loc.email, TRUE, foundUser)
           /\ IF foundUser # <<>>
                 /\ (foundUser[1].role = "ADMIN" =>
                        task[AppProc].loc.password = AdminPassword)
              THEN HandleLogin(foundUser[1]) /\ error' = ""
              ELSE SetError(InvalidLoginMsg) /\ UNCHANGED <<currentUser, view, pointer>>
    /\ Leave(AppProc)
    /\ UNCHANGED <<users, scans, dbHandle, opens, isInitializing, dashVars>>

\* const foundUser = await db.getUserByEmail(email); onLogin(foundUser) or setError.
LoginFind ==
    /\ task[AppProc].prog = "Login" /\ task[AppProc].step = "get"
    /\ task[AppProc].phase = "req"
    /\ LET foundUser == GetUserByEmail(users, task[AppProc].loc.email)
       IN  /\ Done(AppProc, "getUserByEmail", task[AppProc].loc.email, TRUE, foundUser)
           /\ IF foundUser # <<>>
              THEN HandleLogin(foundUser[1]) /\ error' = ""
              ELSE SetError(InvalidLoginMsg) /\ UNCHANGED <<currentUser, view, pointer>>
    /\ Leave(AppProc)
    /\ UNCHANGED <<users, scans, dbHandle, opens, isInitializing, dashVars>>

----------------------------------------------------------------------------
(* Signup.handleSubmit of the modelled tab *)

MinPasswordLength == 6

\* A length check that lets every password through.
AnyLength(password) == FALSE

\* password.length < 6
TooShort(password) == PasswordLength(password) < MinPasswordLength

PasswordMsg == "Password must be at least 6 characters long."
ExistsMsg == "An account with this email already exists."
SignupErrorMsg == "An error occurred during signup."

\* The name typed into the form of the modelled tab.
AppName == "Ann"

SignupSubmit(email, password) ==
    /\ ~isInitializing /\ Screen = "Signup" /\ task[AppProc] = Idle
    /\ IF TooShort(password)
       THEN /\ error' = PasswordMsg
            /\ UNCHANGED <<task, opens>>
       ELSE /\ error' = ""
            /\ Enter(AppProc, "Signup", "get",
                     [email |-> email, name |-> AppName, mounted |-> TRUE])
    /\ UNCHANGED <<users, scans, dbHandle, ret, pre, currentUser, view,
                   isInitializing, pointer, dashVars>>

\* const existing = await db.getUserByEmail(email); if (existing) { setError; return }
SignupCheck ==
    /\ task[AppProc].prog = "Signup" /\ task[AppProc].step = "get"
    /\ task[AppProc].phase = "req"
    /\ LET form == task[AppProc].loc
           existing == GetUserByEmail(users, form.email)
       IN  /\ Done(AppProc, "getUserByEmail", form.email, TRUE, existing)
           /\ IF existing # <<>>
              THEN /\ SetError(ExistsMsg)
                   /\ Leave(AppProc)
                   /\ UNCHANGED opens
              ELSE /\ \E id \in RandomIds : \E t \in Instants :
                        Enter(AppProc, "Signup", "put",
                              [user |-> [id |-> id, name |-> form.name,
                                         email |-> form.email, role |-> "USER",
                                         createdAt |-> t],
                               mounted |-> form.mounted])
                   /\ UNCHANGED error
    /\ UNCHANGED <<users, scans, dbHandle, currentUser, view, isInitializing, pointer, dashVars>>

\* await db.saveUser(newUser); onSignup(newUser) - or the catch branch.
SignupSave ==
    /\ task[AppProc].prog = "Signup" /\ task[AppProc].step = "put"
    /\ task[AppProc].phase = "req"
    /\ LET newUser == task[AppProc].loc.user
       IN  /\ users' = SaveUserStore(users, newUser)
           /\ Done(AppProc, "saveUser", newUser, SaveUserOk(users, newUser), <<>>)
           /\ IF SaveUserOk(users, newUser)
              THEN HandleLogin(newUser) /\ error' = ""
              ELSE SetError(SignupErrorMsg) /\ UNCHANGED <<currentUser, view, pointer>>
    /\ Leave(AppProc)
    /\ UNCHANGED <<scans, dbHandle, opens, isInitializing, dashVars>>

----------------------------------------------------------------------------
(* The AI adapter: src/services/geminiService.ts *)

\* response.text: undefined, or a string, here a sequence over a small
\* alphabet of JSON tokens ("k:v" is one member of an object, "1" a number).
JsonTokens == {"{", "}", "k:v", "1"}
MaxTextLen == 3
RECURSIVE SeqsUpTo(_, _)
SeqsUpTo(S, n) ==
    IF n = 0 THEN {<<>>}
    ELSE LET shorter == SeqsUpTo(S, n - 1)
         IN  shorter \cup {Append(s, x) : s \in shorter, x \in S}
Texts ==
    {[defined |-> FALSE, chars |-> <<>>]}
        \cup {[defined |-> TRUE, chars |-> c] : c \in SeqsUpTo(JsonTokens, MaxTextLen)}

Threw(message) == [ok |-> FALSE, val |-> <<>>, err |-> message]
Returned(value) == [ok |-> TRUE, val |-> <<value>>, err |-> ""]

\* JSON.parse(text): a number, or an object with its members; a SyntaxError
\* for every other text.
JsonParse(chars) ==
    IF chars = <<"1">> THEN Returned(1)
    ELSE IF Len(chars) >= 2 /\ Head(chars) = "{" /\ chars[Len(chars)] = "}"
            /\ SubSeq(chars, 2, Len(chars) - 1) \in {<<>>, <<"k:v">>}
         THEN Returned(SubSeq(chars, 2, Len(chars) - 1))
         ELSE Threw("SyntaxError")

\* !text
Falsy(text) == ~text.defined \/ text.chars = <<>>

\* identifyBreed, from the response on: if (!text) throw ...; return JSON.parse(text)
IdentifyBreed(text) ==
    IF Falsy(text) THEN Threw("AI failed to return identification results.")
    ELSE JsonParse(text.chars)

\* detectAnimalDiseases, from the response on.
DetectAnimalDiseases(text) ==
    IF Falsy(text) THEN Threw("Health analysis failed.")
    ELSE JsonParse(text.chars)

\* A part carries inlineData.data (<<data>>) or only text (<<>>).
Parts == [inlineData : Optional({"d1", "d2"})]
MaxParts == 3
ImageResponses ==
    {[candidates |-> <<>>]}
        \cup {[candidates |-> <<[parts |-> ps]>>] : ps \in SeqsUpTo(Parts, MaxParts)}

\* response.candidates?.[0]?.content.parts || []
PartsOf(response) ==
    IF response.candidates = <<>> THEN <<>> ELSE response.candidates[1].parts

\* The loop `for (const part of parts) if (part.inlineData) return ...`.
RECURSIVE FirstImage(_)
FirstImage(parts) ==
    IF parts = <<>> THEN <<>>
    ELSE IF Head(parts).inlineData # <<>>
         THEN <<"data:image/png;base64,", Head(parts).inlineData[1]>>
         ELSE FirstImage(Tail(parts))

\* An adapter that falls back to the empty string, as generateBreedAudio does.
GenerateImageOrEmpty(response) ==
    IF FirstImage(PartsOf(response)) = <<>> THEN Returned(<<>>)
    ELSE Returned(FirstImage(PartsOf(response)))

\* generateSimilarBreedImage, from the response on.
GenerateSimilarBreedImage(response) ==
    IF FirstImage(PartsOf(response)) = <<>> THEN Threw("Failed to generate image.")
    ELSE Returned(FirstImage(PartsOf(response)))

\* One call of an adapter function with a response of the external service.
CallIdentifyBreed(text) ==
    /\ ai' = [fn |-> "identifyBreed", response |-> text, result |-> IdentifyBreed(text)]
    /\ UNCHANGED <<users, scans, dbHandle, opens, task, ret, pre, appVars, dash>>

CallDetectAnimalDiseases(text) ==
    /\ ai' = [fn |-> "detectAnimalDiseases", response |-> text,
              result |-> DetectAnimalDiseases(text)]
    /\ UNCHANGED <<users, scans, dbHandle, opens, task, ret, pre, appVars, dash>>

CallGenerateSimilarBreedImage(response) ==
    /\ ai' = [fn |-> "generateSimilarBreedImage", response |-> response,
              result |-> GenerateSimilarBreedImage(response)]
    /\ UNCHANGED <<users, scans, dbHandle, opens, task, ret, pre, appVars, dash>>

\* generateBreedAudio, decodeBase64, decodeAudioData.  A base64 text is
\* described by whether atob accepts it and by the number of bytes it encodes;
\* the empty string encodes none.
MaxAudioBytes == 3
Base64Texts ==
    [valid : {TRUE}, bytes : 0..MaxAudioBytes] \cup {[valid |-> FALSE, bytes |-> 0]}
EmptyText == [valid |-> TRUE, bytes |-> 0]

\* The call of generateContent throws, or its response carries audio data in
\* its first part or does not.
AudioResponses ==
    {[threw |-> TRUE, data |-> <<>>]}
        \cup {[threw |-> FALSE, data |-> d] : d \in Optional(Base64Texts)}

\* return response.candidates?.[0]?.content?.parts?.[0]?.inlineData?.data || ''
GenerateBreedAudio(response) ==
    IF response.threw THEN Threw("generateContent failed")
    ELSE IF response.data = <<>> THEN Returned(EmptyText)
    ELSE Returned(response.data[1])

\* atob(base64) and the copy into a Uint8Array: the number of bytes.
DecodeBase64(base64) ==
    IF base64.valid THEN Returned(base64.bytes) ELSE Threw("InvalidCharacterError")

\* new Int16Array(data.buffer, data.byteOffset, data.byteLength / 2) and
\* ctx.createBuffer(1, frameCount, 24000), which throws for no frames: the
\* number of frames of the buffer.
DecodeAudioData(byteLength) ==
    LET frameCount == byteLength \div 2
    IN  IF frameCount = 0 THEN Threw("NotSupportedError") ELSE Returned(frameCount)

\* The three calls of handleListen in a row: the buffer to play, or the error
\* that its catch receives.
AudioBuffer(response) ==
    LET base64 == GenerateBreedAudio(response)
        bytes == IF base64.ok THEN DecodeBase64(base64.val[1]) ELSE base64
    IN  IF bytes.ok THEN DecodeAudioData(bytes.val[1]) ELSE bytes

----------------------------------------------------------------------------
(* Dashboard: src/components/Dashboard.tsx, mounted for the user DashUser *)

DashUser == "u1"
\* The photo the user picks in the file input.
DashImages == {"img1"}
DashScanIds == {"s1"}
\* The responses of the external service to the calls of the Dashboard: no
\* text, or the text of an object.
DashTexts ==
    {[defined |-> FALSE, chars |-> <<>>], [defined |-> TRUE, chars |-> <<"{", "k:v", "}">>]}
Outcomes == {"ok", "error"}
SuccessAlert == "Success! added to your collection."
HealthFailedMsg == "Health analysis failed."

\* A handler awaits a call of the AI adapter.
Await(p, prog, loc) ==
    task' = [task EXCEPT ![p] = [prog |-> prog, step |-> "ai", phase |-> "ai", loc |-> loc]]

\* db.saveScan(result) as a handler sees it end: stored, or rejected.
SaveScanOutcome(p, outcome, result) ==
    /\ scans' = IF outcome = "ok" THEN SaveScanStore(scans, result) ELSE scans
    /\ Done(p, "saveScan", result, outcome = "ok",
            IF outcome = "ok" THEN <<>> ELSE <<"UnknownError">>)

\* A state update of handler p: lost when its Dashboard has left the screen.
Shows(p, d) == dash' = IF dash.stale[p] # "" THEN dash ELSE d

\* The last state update of handler p.
Ends(p, d) ==
    dash' = IF dash.stale[p] # "" THEN [dash EXCEPT !.stale[p] = ""] ELSE d

\* The ids of the scans in a list.
ListIds(list) == {list[i].id : i \in 1..Len(list)}

\* scans.filter(s => s.isPurchased)
Purchased(list) ==
    LET IsPurchased(s) == s.isPurchased = <<TRUE>> IN SelectSeq(list, IsPurchased)

\* prev.filter(s => s.id !== id)
Without(list, id) ==
    LET Other(s) == s.id # id IN SelectSeq(list, Other)

\* loadPurchases up to `await db.getUserScans(user.id)`, the database open.
LoadPurchases == [prog |-> "loadPurchases", step |-> "get", phase |-> "req", loc |-> <<>>]

\* A login of the stored user `user` while nobody is logged in, from the
\* submission of the form to handleLogin; the Dashboard is mounted for the
\* user, with fresh state, and its effect calls loadPurchases.
DashLogin(user) ==
    /\ ~isInitializing /\ currentUser = <<>>
    /\ user \in users /\ user.role = "USER"
    /\ task["load"] = Idle
    /\ HandleLogin(user)
    /\ error' = ""
    /\ task' = [task EXCEPT !["load"] = LoadPurchases]
    /\ UNCHANGED <<users, scans, dbHandle, opens, ret, pre, isInitializing, dashVars>>

\* The effect on mount: loadPurchases.  A rejection is not handled.
LoadPurchasesDone(outcome) ==
    /\ task["load"].prog = "loadPurchases" /\ task["load"].phase = "req"
    /\ Done("load", "getUserScans", Owner("load"), outcome = "ok",
            IF outcome = "ok" THEN GetUserScans(scans, Owner("load"))
            ELSE <<"UnknownError">>)
    /\ Ends("load",
            IF outcome = "ok"
            THEN [dash EXCEPT
                    !.shoppingCart = Purchased(GetUserScans(scans, Owner("load")))]
            ELSE dash)
    /\ Leave("load")
    /\ UNCHANGED <<users, scans, dbHandle, opens, appVars, ai>>

\* The file input, shown while no image is selected.
SelectImage(img) ==
    /\ Screen = "Dashboard"
    /\ dash.selectedImage = <<>>
    /\ dash' = [dash EXCEPT !.selectedImage = <<img>>]
    /\ UNCHANGED <<users, scans, dbHandle, opens, task, ret, pre, appVars, ai>>

ResetAll ==
    /\ Screen = "Dashboard"
    /\ dash.selectedImage # <<>>
    /\ dash' = [dash EXCEPT !.selectedImage = <<>>, !.currentResult = <<>>,
                            !.healthAnalysis = <<>>, !.error = <<>>]
    /\ UNCHANGED <<users, scans, dbHandle, opens, task, ret, pre, appVars, ai>>

\* handleIdentify up to `await identifyBreed(selectedImage)`.  The button is
\* shown with an image and without a result, and disabled while isUploading.
HandleIdentify ==
    /\ Screen = "Dashboard"
    /\ dash.selectedImage # <<>> /\ dash.currentResult = <<>> /\ ~dash.isUploading
    /\ task["identify"] = Idle
    /\ dash' = [dash EXCEPT !.isUploading = TRUE, !.error = <<>>,
                            !.currentResult = <<>>, !.healthAnalysis = <<>>]
    /\ Await("identify", "handleIdentify", [image |-> dash.selectedImage[1]])
    /\ UNCHANGED <<users, scans, dbHandle, opens, ret, pre, appVars, ai>>

\* The id of whoever is logged in when the handler builds its record.
LatestUser(p) == IF currentUser # <<>> THEN currentUser[1].id ELSE Owner(p)

\* user.id in the closure of handler p.
ClosureUser(p) == Owner(p)

\* The ids of scans that pending handlers hold.
PendingIds ==
    UNION {IF task[p].prog = "handlePurchase" THEN {task[p].loc.id}
           ELSE IF task[p].prog = "handleHealthCheck" THEN {task[p].loc.captured.id}
           ELSE IF task[p].prog = "handleReturn" THEN {task[p].loc.id}
           ELSE {} : p \in DashProcs}

\* identifyBreed returns or throws: newResult is shown and saved, or the
\* message of the error is.
IdentifyReturns(text, id) ==
    /\ task["identify"].prog = "handleIdentify" /\ task["identify"].step = "ai"
    /\ id \notin Ids(scans) \cup ListIds(dash.shoppingCart)
                  \cup ListIds(dash.currentResult) \cup PendingIds
    /\ ai' = [fn |-> "identifyBreed", response |-> text, result |-> IdentifyBreed(text)]
    /\ IF IdentifyBreed(text).ok
       THEN LET newResult == [id |-> id, userId |-> ClosureUser("identify"),
                              imageUrl |-> task["identify"].loc.image, timestamp |-> 1,
                              healthAnalysis |-> <<>>, isPurchased |-> <<>>]
            IN  /\ Shows("identify", [dash EXCEPT !.currentResult = <<newResult>>])
                /\ Enter("identify", "handleIdentify", "save", newResult)
       ELSE /\ Ends("identify", [dash EXCEPT !.error = <<IdentifyBreed(text).err>>,
                                             !.isUploading = FALSE])
            /\ Leave("identify")
            /\ UNCHANGED opens
    /\ UNCHANGED <<users, scans, dbHandle, ret, pre, appVars>>

\* saveScanToDB(newResult) ends (a rejection is logged to the console only),
\* then `finally`.
IdentifySaved(outcome) ==
    /\ task["identify"].prog = "handleIdentify" /\ task["identify"].step = "save"
    /\ task["identify"].phase = "req"
    /\ SaveScanOutcome("identify", outcome, task["identify"].loc)
    /\ Ends("identify", [dash EXCEPT !.isUploading = FALSE])
    /\ Leave("identify")
    /\ UNCHANGED <<users, dbHandle, opens, appVars, ai>>

\* A pending handleHealthCheck notes that a purchase of the scan it captured
\* was clicked while its detectAnimalDiseases call was pending.
Raced(t, id) ==
    IF t.prog = "handleHealthCheck" /\ t.step = "ai" /\ t.loc.captured.id = id
    THEN [t EXCEPT !.loc.raced = TRUE]
    ELSE t

\* handlePurchase up to `await saveScanToDB(purchased)`.  The button is shown
\* with an image, for a result that is not purchased.
HandlePurchase ==
    /\ Screen = "Dashboard"
    /\ dash.selectedImage # <<>>
    /\ dash.currentResult # <<>> /\ dash.currentResult[1].isPurchased # <<TRUE>>
    /\ task["purchase"] = Idle
    /\ Len(dash.shoppingCart) < MaxCart
    /\ CanInit
    /\ task' = [Entered("purchase", "handlePurchase", "save",
                        [dash.currentResult[1] EXCEPT !.isPurchased = <<TRUE>>])
                   EXCEPT !["health"] = Raced(@, dash.currentResult[1].id)]
    /\ opens' = InitOpens
    /\ UNCHANGED <<users, scans, dbHandle, ret, pre, appVars, dashVars>>

\* saveScanToDB(purchased) ends, stored or not; then the cart, the result and
\* the alert.
PurchaseSaved(outcome) ==
    /\ task["purchase"].prog = "handlePurchase" /\ task["purchase"].phase = "req"
    /\ SaveScanOutcome("purchase", outcome, task["purchase"].loc)
    /\ dash' = IF dash.stale["purchase"] # ""
               THEN [dash EXCEPT !.stale["purchase"] = "", !.alert = SuccessAlert]
               ELSE [dash EXCEPT !.shoppingCart = <<task["purchase"].loc>> \o @,
                                 !.currentResult = <<task["purchase"].loc>>,
                                 !.alert = SuccessAlert]
    /\ Leave("purchase")
    /\ UNCHANGED <<users, dbHandle, opens, appVars, ai>>

\* handleReturn(id) up to `await db.deleteScan(id)`, the confirm accepted.
HandleReturn(id) ==
    /\ Screen = "Dashboard"
    /\ id \in ListIds(dash.shoppingCart)
    /\ task["return"] = Idle
    /\ Enter("return", "handleReturn", "delete",
             [id |-> id, current |-> id \in ListIds(dash.currentResult)])
    /\ UNCHANGED <<users, scans, dbHandle, ret, pre, appVars, dashVars>>

\* deleteScan ends.  A rejection is not handled: nothing follows it.
ReturnDone(outcome) ==
    /\ task["return"].prog = "handleReturn" /\ task["return"].phase = "req"
    /\ LET id == task["return"].loc.id
       IN  /\ scans' = IF outcome = "ok" THEN Delete(scans, id) ELSE scans
           /\ Done("return", "deleteScan", id, outcome = "ok",
                   IF outcome = "ok" THEN <<>> ELSE <<"UnknownError">>)
           /\ Ends("return",
                   IF outcome # "ok" THEN dash
                   ELSE [dash EXCEPT
                           !.shoppingCart = Without(@, id),
                           !.currentResult =
                               IF task["return"].loc.current /\ @ # <<>>
                               THEN <<[@[1] EXCEPT !.isPurchased = <<FALSE>>]>>
                               ELSE @])
    /\ Leave("return")
    /\ UNCHANGED <<users, dbHandle, opens, appVars, ai>>

\* An updatedResult built from the result on screen when the analysis arrives.
UpdatedFromLatest(captured, latest, analysis) ==
    IF latest = <<>> THEN [captured EXCEPT !.healthAnalysis = <<analysis>>]
    ELSE [latest[1] EXCEPT !.healthAnalysis = <<analysis>>]

\* { ...currentResult, healthAnalysis: analysis }, currentResult being the
\* one the handler captured when it was called.
UpdatedResult(captured, latest, analysis) ==
    [captured EXCEPT !.healthAnalysis = <<analysis>>]

\* handleHealthCheck up to `await detectAnimalDiseases(selectedImage, ...)`.
\* The button is shown with a result and without an analysis, disabled while
\* isAnalyzingHealth.
HandleHealthCheck ==
    /\ Screen = "Dashboard"
    /\ dash.selectedImage # <<>> /\ dash.currentResult # <<>>
    /\ dash.healthAnalysis = <<>> /\ ~dash.isAnalyzingHealth
    /\ task["health"] = Idle
    /\ dash' = [dash EXCEPT !.isAnalyzingHealth = TRUE]
    /\ Await("health", "handleHealthCheck",
             [image |-> dash.selectedImage[1], captured |-> dash.currentResult[1],
              raced |-> FALSE, result |-> dash.currentResult[1]])
    /\ UNCHANGED <<users, scans, dbHandle, opens, ret, pre, appVars, ai>>

\* detectAnimalDiseases returns or throws.
HealthReturns(text) ==
    /\ task["health"].prog = "handleHealthCheck" /\ task["health"].step = "ai"
    /\ ai' = [fn |-> "detectAnimalDiseases", response |-> text,
              result |-> DetectAnimalDiseases(text)]
    /\ IF DetectAnimalDiseases(text).ok
       THEN LET analysis == CHOOSE h \in HealthAnalysisResponse : TRUE
                updatedResult ==
                    UpdatedResult(task["health"].loc.captured, dash.currentResult, analysis)
            IN  /\ Shows("health", [dash EXCEPT !.healthAnalysis = <<analysis>>,
                                                !.currentResult = <<updatedResult>>])
                /\ Enter("health", "handleHealthCheck", "save",
                         [task["health"].loc EXCEPT !.result = updatedResult])
       ELSE /\ Ends("health", [dash EXCEPT !.error = <<HealthFailedMsg>>,
                                           !.isAnalyzingHealth = FALSE])
            /\ Leave("health")
            /\ UNCHANGED opens
    /\ UNCHANGED <<users, scans, dbHandle, ret, pre, appVars>>

\* saveScanToDB(updatedResult) ends, then `finally`.
HealthSaved(outcome) ==
    /\ task["health"].prog = "handleHealthCheck" /\ task["health"].step = "save"
    /\ task["health"].phase = "req"
    /\ SaveScanOutcome("health", outcome, task["health"].loc.result)
    /\ Ends("health", [dash EXCEPT !.isAnalyzingHealth = FALSE])
    /\ Leave("health")
    /\ UNCHANGED <<users, dbHandle, opens, appVars, ai>>

\* A handleListen that does not look at the flag.
NeverPlaying == FALSE

\* isPlayingAudio, as the guard of handleListen and the `disabled` of its
\* button read it.
AlreadyPlaying == dash.isPlayingAudio

\* handleListen up to `await generateBreedAudio(voiceText)`.
HandleListen ==
    /\ Screen = "Dashboard"
    /\ dash.selectedImage # <<>> /\ dash.currentResult # <<>>
    /\ ~AlreadyPlaying
    /\ task["listen"] = Idle
    /\ dash' = [dash EXCEPT !.isPlayingAudio = TRUE]
    /\ Await("listen", "handleListen", <<>>)
    /\ UNCHANGED <<users, scans, dbHandle, opens, ret, pre, appVars, ai>>

\* generateBreedAudio returns or throws; the payload is decoded and the source
\* started, or the catch clears the flag.
SpeechReturns(response) ==
    /\ task["listen"].prog = "handleListen" /\ task["listen"].step = "ai"
    /\ ai' = [fn |-> "generateBreedAudio", response |-> response,
              result |-> AudioBuffer(response)]
    /\ Ends("listen",
            IF AudioBuffer(response).ok
            THEN [dash EXCEPT !.playing = @ + 1]
            ELSE [dash EXCEPT !.isPlayingAudio = FALSE])
    /\ Leave("listen")
    /\ UNCHANGED <<users, scans, dbHandle, opens, ret, pre, appVars>>

\* source.onended = () => setIsPlayingAudio(false)
PlaybackEnds ==
    /\ dash.playing > 0
    /\ dash' = [dash EXCEPT !.playing = @ - 1, !.isPlayingAudio = FALSE]
    /\ UNCHANGED <<users, scans, dbHandle, opens, task, ret, pre, appVars, ai>>

----------------------------------------------------------------------------
(* Specifications *)

\* The identities Signup.handleSubmit can build.
SignupUsers ==
    {u \in User : u.id \in RandomIds /\ u.role = "USER" /\ u.createdAt = "t1"}

StartUp(p) ==
    \/ StartApp(p)
    \/ OpenSuccess(p)
    \/ InitDone(p)
    \/ SeedLookup(p)
    \/ SeedPut(p)

\* Concurrent callers, all operations on identities.
Next ==
    \E p \in Procs :
        \/ StartUp(p)
        \/ CallSeedAdmin(p)
        \/ \E email \in Emails : Submit(p, email)
        \/ SignupLookup(p)
        \/ SignupPut(p)
        \/ CallApi(p)
        \/ \E user \in SignupUsers : SaveUser(p, user)
        \/ \E id \in UserIds : GetUserReq(p, id)
        \/ \E email \in Emails : GetUserByEmailReq(p, email)
        \/ GetAllUsersReq(p)

Spec == Init /\ [][Next]_vars

\* Scans as handleIdentify stores them (no health analysis yet), purchased or not.
ListScans ==
    {s \in BreedResult :
        s.healthAnalysis = <<>> /\ s.isPurchased # <<FALSE>> /\ s.imageUrl = "img1"}

\* One caller, all operations on scans.
NextScans ==
    \E p \in {"p1"} :
        \/ StartUp(p)
        \/ CallApi(p)
        \/ \E scan \in ListScans : SaveScan(p, scan)
        \/ \E userId \in RandomIds : GetUserScansReq(p, userId)
        \/ GetAllScansReq(p)
        \/ \E id \in ScanIds : DeleteScan(p, id)

SpecScans == Init /\ [][NextScans]_vars

\* Scans of one instant, of either owner, with every combination of the
\* optional fields.
FewScanIds == {"s1", "s2"}
FewScans ==
    {s \in BreedResult :
        /\ s.id \in FewScanIds /\ s.timestamp = 1 /\ s.isPurchased # <<FALSE>>
        /\ s.imageUrl = "img1"}

\* The identities of signups for an email that is not the administrator's.
FewUsers == {u \in SignupUsers : u.email # AdminEmail}

\* One caller, both collections.
NextStore ==
    \E p \in {"p1"} :
        \/ StartUp(p)
        \/ CallApi(p)
        \/ \E user \in FewUsers : SaveUser(p, user)
        \/ \E scan \in FewScans : SaveScan(p, scan)
        \/ \E id \in FewScanIds : DeleteScan(p, id)
        \/ \E userId \in RandomIds : GetUserScansReq(p, userId)
        \/ GetAllScansReq(p)

SpecStore == Init /\ [][NextStore]_vars

\* One caller of the methods on scans, with every way IndexedDB can fail it.
NextFail ==
    \E p \in {"p1"} :
        \/ CallApi(p)
        \/ OpenSuccess(p)
        \/ \E err \in StorageErrors : OpenError(p, err)
        \/ \E scan \in ScanArgs("saveScan") : SaveScan(p, scan)
        \/ \E id \in ScanArgs("deleteScan") : DeleteScan(p, id)
        \/ \E userId \in ScanArgs("getUserScans") : GetUserScansReq(p, userId)
        \/ GetAllScansReq(p)
        \/ \E op \in ScanOps : \E arg \in ScanArgs(op) : \E err \in StorageErrors :
              RequestError(p, op, arg, err)
        \/ \E op \in WriteOps : \E arg \in ScanArgs(op) : CommitAbort(p, op, arg)

\* The caller starts with no handler pending.
InitFail ==
    /\ users = {}
    /\ scans = {}
    /\ dbHandle = "null"
    /\ opens = 0
    /\ task = [p \in AllProcs |-> Idle]
    /\ ret = NoRet
    /\ pre = [users |-> {}, scans |-> {}]
    /\ currentUser = <<>>
    /\ view = "landing"
    /\ isInitializing = TRUE
    /\ pointer = <<>>
    /\ error = ""
    /\ dash = NoDashboard
    /\ ai = NoCall

SpecFail == InitFail /\ [][NextFail]_vars

\* The adapter functions applied to every response.
NextAi ==
    \/ \E text \in Texts : CallIdentifyBreed(text)
    \/ \E text \in Texts : CallDetectAnimalDiseases(text)
    \/ \E response \in ImageResponses : CallGenerateSimilarBreedImage(response)

SpecAi == Init /\ [][NextAi]_vars

\* The Dashboard has just been mounted for DashUser, whose session initApp
\* or handleLogin started: the database is open and loadPurchases is pending.
DashUserRecord ==
    [id |-> DashUser, name |-> AppName, email |-> "a@x.com", role |-> "USER",
     createdAt |-> "t1"]

\* A second user, who can log in on the same browser.
OtherUserRecord ==
    [id |-> "u2", name |-> "Bob", email |-> "A@x.com", role |-> "USER",
     createdAt |-> "t2"]

InitDash ==
    /\ users = {AdminUser, DashUserRecord, OtherUserRecord}
    /\ scans = {}
    /\ dbHandle = "open"
    /\ opens = 1
    /\ task = [p \in AllProcs |->
                 IF p = "load" THEN LoadPurchases ELSE Idle]
    /\ ret = NoRet
    /\ pre = [users |-> {AdminUser, DashUserRecord, OtherUserRecord}, scans |-> {}]
    /\ currentUser = <<DashUserRecord>>
    /\ view = "dashboard"
    /\ isInitializing = FALSE
    /\ pointer = <<DashUser>>
    /\ error = ""
    /\ dash = NoDashboard
    /\ ai = NoCall

\* The handlers of the Dashboard with the store outcomes in `outcomes`.
DashNext(outcomes) ==
    \/ \E outcome \in outcomes : LoadPurchasesDone(outcome)
    \/ \E img \in DashImages : SelectImage(img)
    \/ ResetAll
    \/ HandleIdentify
    \/ \E text \in DashTexts : \E id \in DashScanIds : IdentifyReturns(text, id)
    \/ \E outcome \in outcomes : IdentifySaved(outcome)
    \/ HandlePurchase
    \/ \E outcome \in outcomes : PurchaseSaved(outcome)
    \/ \E id \in DashScanIds : HandleReturn(id)
    \/ \E outcome \in outcomes : ReturnDone(outcome)
    \/ HandleHealthCheck
    \/ \E text \in DashTexts : HealthReturns(text)
    \/ \E outcome \in outcomes : HealthSaved(outcome)

\* The Dashboard with a store that does not fail.
NextDash == DashNext({"ok"})
SpecDash == InitDash /\ [][NextDash]_vars

\* The Dashboard with a store whose requests can fail.
NextDashFail == DashNext(Outcomes)
SpecDashFail == InitDash /\ [][NextDashFail]_vars

\* The identification tab with two photos to choose from: selecting, resetting,
\* identifying and the health check.
NextImages ==
    \/ LoadPurchasesDone("ok")
    \/ \E img \in Images : SelectImage(img)
    \/ ResetAll
    \/ HandleIdentify
    \/ \E text \in DashTexts : \E id \in DashScanIds : IdentifyReturns(text, id)
    \/ IdentifySaved("ok")
    \/ HandleHealthCheck
    \/ \E text \in DashTexts : HealthReturns(text)
    \/ HealthSaved("ok")

SpecImages == InitDash /\ [][NextImages]_vars

\* The ids of the scans of two sessions.
SessionScanIds == {"s1", "s2"}

\* Listening to the description of identified breeds.
NextListen ==
    \/ LoadPurchasesDone("ok")
    \/ \E img \in DashImages : SelectImage(img)
    \/ ResetAll
    \/ HandleIdentify
    \/ \E text \in DashTexts : \E id \in DashScanIds : IdentifyReturns(text, id)
    \/ IdentifySaved("ok")
    \/ HandleListen
    \/ \E response \in AudioResponses : SpeechReturns(response)
    \/ PlaybackEnds

\* The call of the speech model returns or throws, and a buffer that was
\* started plays to its end.
SpecListen ==
    /\ InitDash /\ [][NextListen]_vars
    /\ WF_vars(\E response \in AudioResponses : SpeechReturns(response))
    /\ WF_vars(PlaybackEnds)

\* Sessions on one browser: the user logs out while handlers of the
\* Dashboard are pending, and the same or another user logs in.
NextSession ==
    \/ LoadPurchasesDone("ok")
    \/ \E img \in DashImages : SelectImage(img)
    \/ HandleIdentify
    \/ \E text \in DashTexts : \E id \in SessionScanIds : IdentifyReturns(text, id)
    \/ IdentifySaved("ok")
    \/ HandlePurchase
    \/ PurchaseSaved("ok")
    \/ HandleHealthCheck
    \/ \E text \in DashTexts : HealthReturns(text)
    \/ HealthSaved("ok")
    \/ Logout
    \/ \E user \in {DashUserRecord, OtherUserRecord} : DashLogin(user)

SpecSession == InitDash /\ [][NextSession]_vars

\* The pointer slot outlives the database: a start can find an id in it that
\* an earlier session left there.
InitApp ==
    /\ users = {}
    /\ scans = {}
    /\ dbHandle = "null"
    /\ opens = 0
    /\ task = [p \in AllProcs |-> Boot]
    /\ ret = NoRet
    /\ pre = [users |-> {}, scans |-> {}]
    /\ currentUser = <<>>
    /\ view = "landing"
    /\ isInitializing = TRUE
    /\ pointer \in Optional(UserIds)
    /\ error = ""
    /\ dash = NoDashboard
    /\ ai = NoCall

AppEmails == {"a@x.com", AdminEmail}

\* The modelled tab, and the signups of another tab.
NextApp ==
    \/ StartUp(AppProc)
    \/ RestoreLookup(AppProc)
    \/ \E v \in Views : SetView(v)
    \/ Logout
    \/ Reload
    \/ \E email \in AppEmails : \E password \in Passwords : LoginSubmit(email, password)
    \/ LoginAdmin
    \/ LoginFind
    \/ \E email \in AppEmails : \E password \in Passwords : SignupSubmit(email, password)
    \/ SignupCheck
    \/ SignupSave
    \/ StartUp("p2")
    \/ \E email \in AppEmails : Submit("p2", email)
    \/ SignupLookup("p2")
    \/ SignupPut("p2")

SpecApp == InitApp /\ [][NextApp]_vars

\* One start of the modelled tab with every way its steps can reject, next to
\* the start and the signups of another tab.
InitSteps ==
    \/ StartUp(AppProc)
    \/ RestoreLookup(AppProc)
    \/ \E err \in StorageErrors : InitRejects(AppProc, err)

NextInit ==
    \/ InitSteps
    \/ StartUp("p2")
    \/ \E email \in AppEmails : Submit("p2", email)
    \/ SignupLookup("p2")
    \/ SignupPut("p2")

\* The browser fires success or error for every request it was given, and
\* React runs the effect that calls initApp.
SpecInit == InitApp /\ [][NextInit]_vars /\ WF_vars(InitSteps)

----------------------------------------------------------------------------
(* Properties *)

ElemsOf(s) == {s[i] : i \in 1..Len(s)}

NewestFirst(s) ==
    \A i \in 1..Len(s) : \A j \in i..Len(s) : s[i].timestamp >= s[j].timestamp

\* The list holds each record of the set once, and nothing else.
ListsExactly(s, set) == ElemsOf(s) = set /\ Len(s) = Cardinality(set)

\* Some caller's seedAdmin has run to its end.
SeedDone == \E p \in Procs : task[p].prog \notin {"boot", "initApp"}

\* C1: no two stored identities with different ids have the same email; a
\* saveUser of an identity whose email is held by a record with another id is
\* rejected and leaves the collection as it was, also when the save comes from
\* a signup whose getUserByEmail pre-check had passed.
C1_EmailUnique ==
    /\ \A a \in users : \A b \in users : a.id # b.id => a.email # b.email
    /\ (ret.op = "saveUser"
          /\ \E r \in pre.users : r.email = ret.arg.email /\ r.id # ret.arg.id)
        => (~ret.ok /\ users = pre.users)

\* A signup passed its pre-check and its saveUser was then rejected, because a
\* concurrent signup had stored the email in between.
C1_Witness ==
    /\ ret.by = "signup" /\ ret.op = "saveUser" /\ ~ret.ok
    /\ \E r \in users : r.email = ret.arg.email /\ r.id # ret.arg.id
                         /\ r.role = "USER"

\* C2: getUserScans(u) returns exactly the stored scans whose userId is u,
\* newest first, and getAllScans returns every stored scan, newest first.
C2_ListsNewestFirst ==
    /\ ret.op = "getUserScans" =>
          /\ ListsExactly(ret.val, {s \in scans : s.userId = ret.arg})
          /\ NewestFirst(ret.val)
    /\ ret.op = "getAllScans" =>
          /\ ListsExactly(ret.val, scans)
          /\ NewestFirst(ret.val)

\* s1 at T1 and s2 at T2 > T1 of one owner are listed as [s2, s1], while
\* another owner has a scan too.
C2_Witness ==
    /\ ret.op = "getUserScans" /\ Len(ret.val) = 2
    /\ ret.val[1].id = "s2" /\ ret.val[2].id = "s1"
    /\ ret.val[1].timestamp > ret.val[2].timestamp
    /\ \E s \in scans : s.userId # ret.arg

\* C3: saving one additional scan for owner u makes getUserScans(u) exactly
\* one element longer, and the new scan is its first element when its
\* timestamp is newer than that of every other scan of u.
C3_OneLonger ==
    (ret.op = "saveScan" /\ ret.arg.id \notin Ids(pre.scans)) =>
        LET u == ret.arg.userId
            before == GetUserScans(pre.scans, u)
            after == GetUserScans(scans, u)
        IN  /\ Len(after) = Len(before) + 1
            /\ ElemsOf(after) = ElemsOf(before) \cup {ret.arg}
            /\ (\A s \in ElemsOf(before) : s.timestamp < ret.arg.timestamp)
                 => after[1] = ret.arg

\* A scan with a new id and the newest timestamp was saved for an owner who
\* had a scan under a smaller key.
C3_Witness ==
    /\ ret.op = "saveScan" /\ ret.arg.id = "s3" /\ ret.arg.id \notin Ids(pre.scans)
    /\ \E s \in pre.scans : s.userId = ret.arg.userId
    /\ \A s \in pre.scans : s.userId = ret.arg.userId
                               => s.timestamp < ret.arg.timestamp

\* C4: after saveScan(s), getUserScans(s.userId) and getAllScans each hold
\* one element with the id of s, and it equals s in every field, the optional
\* healthAnalysis and isPurchased included.
C4_RoundTrip ==
    ret.op = "saveScan" =>
        \A list \in {GetUserScans(scans, ret.arg.userId), GetAllScans(scans)} :
            /\ Cardinality({i \in 1..Len(list) : list[i].id = ret.arg.id}) = 1
            /\ \A i \in 1..Len(list) :
                  list[i].id = ret.arg.id =>
                      /\ list[i] = ret.arg
                      /\ list[i].healthAnalysis = ret.arg.healthAnalysis
                      /\ list[i].isPurchased = ret.arg.isPurchased

\* A purchased scan with a health analysis was saved next to another scan.
C4_Witness ==
    /\ ret.op = "saveScan"
    /\ ret.arg.healthAnalysis # <<>> /\ ret.arg.isPurchased = <<TRUE>>
    /\ Cardinality(scans) = 2

\* C5: deleteScan(id) resolves; for an id that is not stored it leaves both
\* collections as they were, and after it the id is not stored, so that a
\* second deleteScan(id) changes nothing.
C5_DeleteAbsent ==
    ret.op = "deleteScan" =>
        /\ ret.ok
        /\ users = pre.users
        /\ scans = {s \in pre.scans : s.id # ret.arg}
        /\ ret.arg \notin Ids(pre.scans) => scans = pre.scans
        /\ ret.arg \notin Ids(scans)

\* deleteScan ran for an id that was not stored while other records were.
C5_Witness ==
    /\ ret.op = "deleteScan" /\ ret.arg \notin Ids(pre.scans)
    /\ pre.scans # {} /\ pre.users # {}

AdminRecords(list) == {i \in 1..Len(list) : list[i].email = AdminEmail}

\* C6: once a seedAdmin has run to its end, and after any further seedAdmin
\* calls, one after another or interleaved, getAllUsers holds exactly one
\* record with the email admin@breedfinder.com, with id admin-1 and role ADMIN.
C6_SeedIdempotent ==
    /\ SeedDone =>
          LET list == GetAllUsers(users)
          IN  /\ Cardinality(AdminRecords(list)) = 1
              /\ \A i \in AdminRecords(list) :
                    list[i].id = "admin-1" /\ list[i].role = "ADMIN"
    /\ (SeedDone /\ ret.op = "getAllUsers") =>
          /\ Cardinality(AdminRecords(ret.val)) = 1
          /\ \A i \in AdminRecords(ret.val) :
                ret.val[i].id = "admin-1" /\ ret.val[i].role = "ADMIN"

\* Two interleaved seedAdmin calls both found no administrator, and the second
\* one has just put its record over the first one's; identities of signups
\* are stored too.
C6_Witness ==
    /\ SeedDone
    /\ ret.by \in {"initApp", "seedAdmin"} /\ ret.op = "saveUser" /\ ret.ok
    /\ \E r \in pre.users : r.email = AdminEmail
    /\ \E r \in users : r.role = "USER"

\* C7: getUserByEmail(e) returns a stored identity whose email is exactly e,
\* and null when no stored identity has that email; the identity stored last
\* is the one a lookup of its email returns.
C7_LookupByEmail ==
    /\ ret.op = "getUserByEmail" =>
          IF \E r \in users : r.email = ret.arg
          THEN /\ Len(ret.val) = 1
               /\ ret.val[1] \in users
               /\ ret.val[1].email = ret.arg
          ELSE ret.val = <<>>
    /\ (ret.op = "saveUser" /\ ret.ok) =>
          GetUserByEmail(users, ret.arg.email) = <<ret.arg>>

\* A lookup of "A@x.com" found nothing while "a@x.com" was stored.
C7_Witness ==
    /\ ret.op = "getUserByEmail" /\ ret.arg = "A@x.com" /\ ret.val = <<>>
    /\ \E r \in users : r.email = "a@x.com"

\* A put of `record` by id: afterwards the collection holds `record` under
\* its id and every record with another id as before.
ReplacedById(before, after, record) ==
    /\ record \in after
    /\ \A r \in after : r.id = record.id => r = record
    /\ {r \in after : r.id # record.id} = {r \in before : r.id # record.id}

\* C8 as claimed: every saveUser and saveScan of a record whose id is stored
\* succeeds and replaces the record by id, all else unchanged.
C8_PutNeverFails ==
    /\ (ret.op = "saveUser" /\ ret.arg.id \in Ids(pre.users)) =>
          /\ ret.ok
          /\ ReplacedById(pre.users, users, ret.arg)
          /\ scans = pre.scans
    /\ (ret.op = "saveScan" /\ ret.arg.id \in Ids(pre.scans)) =>
          /\ ret.ok
          /\ ReplacedById(pre.scans, scans, ret.arg)
          /\ users = pre.users

\* C8, amended: saveScan always, and saveUser unless the email of the record
\* is held by a stored identity with another id, succeeds whether or not the
\* id is stored, and afterwards the collection maps the id to exactly the
\* record, every record with another id and the other collection unchanged.
C8_PutReplacesById ==
    /\ ret.op = "saveUser" =>
          /\ ret.ok <=> ~\E r \in pre.users :
                            r.email = ret.arg.email /\ r.id # ret.arg.id
          /\ ret.ok => ReplacedById(pre.users, users, ret.arg)
          /\ scans = pre.scans
    /\ ret.op = "saveScan" =>
          /\ ret.ok
          /\ ReplacedById(pre.scans, scans, ret.arg)
          /\ users = pre.users

\* An identity was saved over a different record with the same id, while
\* another identity and a scan were stored.
C8_Witness ==
    /\ ret.op = "saveUser" /\ ret.ok
    /\ ret.arg.id \in Ids(pre.users) /\ ret.arg \notin pre.users
    /\ \E r \in users : r.id \in RandomIds /\ r.id # ret.arg.id
    /\ scans # {}

\* C9: getUser(id) and getUserByEmail(email) resolve also when nothing is
\* stored under the id or email, then to null, and leave the store unchanged.
C9_AbsentIsNull ==
    /\ ret.op = "getUser" =>
          /\ ret.ok
          /\ ret.arg \notin Ids(users) => ret.val = <<>>
          /\ users = pre.users /\ scans = pre.scans
    /\ ret.op = "getUserByEmail" =>
          /\ ret.ok
          /\ (\A r \in users : r.email # ret.arg) => ret.val = <<>>
          /\ users = pre.users /\ scans = pre.scans

\* getUser ran for an id that is not stored while other identities are.
C9_Witness ==
    /\ ret.op = "getUser" /\ ret.arg \notin Ids(users) /\ ret.val = <<>>
    /\ Cardinality(users) >= 2

\* C10: indexedDB.open is issued at most once for the AnimalDB instance.
C10_OpenedOnce == opens <= 1

----------------------------------------------------------------------------
(* Properties of the session and view controller *)

\* The identities the pointer slot resolves to.
Resolved == {u \in users : pointer # <<>> /\ u.id = pointer[1]}

\* The step in which initApp of the modelled tab finishes.
InitFinishes == isInitializing /\ ~isInitializing'

\* C11: when initialisation finishes, a pointer slot that holds the id of a
\* stored identity makes that identity the current user and the view 'admin'
\* for an administrator and 'dashboard' otherwise; with the slot empty or its
\* id unknown to the store the current user is null and the view 'landing'.
C11_SessionRestore ==
    [][InitFinishes =>
         IF Resolved # {}
         THEN \E u \in Resolved :
                /\ currentUser' = <<u>>
                /\ view' = IF u.role = "ADMIN" THEN "admin" ELSE "dashboard"
         ELSE currentUser' = <<>> /\ view' = "landing"]_vars

\* A start has restored the session of the administrator.
C11_Witness ==
    /\ ~isInitializing /\ task[AppProc] = Idle
    /\ ret.by = "initApp" /\ ret.op = "getUser"
    /\ currentUser = ret.val /\ currentUser # <<>>
    /\ currentUser[1].role = "ADMIN" /\ view = "admin"

\* The step in which a pending request of the modelled tab's handler completes.
Moved ==
    /\ task[AppProc].phase = "req"
    /\ task'[AppProc].step # task[AppProc].step
    /\ task'[AppProc].prog # "boot"

\* The identity a completing login lookup finds, or a completing signup stores.
LoggingIn ==
    LET t == task[AppProc]
    IN  IF t.prog = "Login"
        THEN {u \in users :
                u.email = IF t.step = "adminGet" THEN AdminEmail ELSE t.loc.email}
        ELSE IF t.prog = "Signup" /\ t.step = "put"
                /\ ~\E r \in users : r.email = t.loc.user.email /\ r.id # t.loc.user.id
             THEN {t.loc.user}
             ELSE {}

\* C12: every successful login and every successful signup makes the
\* identity the current user, writes its id to the pointer slot and sets the
\* view to 'admin' for an administrator and to 'dashboard' otherwise.
C12_LoginStartsSession ==
    [][(Moved /\ LoggingIn # {}) =>
         \E u \in LoggingIn :
            /\ currentUser' = <<u>>
            /\ pointer' = <<u.id>>
            /\ view' = IF u.role = "ADMIN" THEN "admin" ELSE "dashboard"]_vars

\* A signup has just started the session of the identity it stored.
C12_Witness ==
    /\ ret.by = "Signup" /\ ret.op = "saveUser" /\ ret.ok
    /\ currentUser = <<ret.arg>> /\ pointer = <<ret.arg.id>>
    /\ view = "dashboard" /\ task[AppProc] = Idle

\* C13: a logout leaves the current user null, the pointer slot empty and
\* the view 'landing', whatever the state it is clicked in; a start that finds
\* the slot empty, as a logout leaves it, restores no session.
C13_LogoutEndsSession ==
    [][/\ Logout => (currentUser' = <<>> /\ pointer' = <<>> /\ view' = "landing")
       /\ (InitFinishes /\ pointer = <<>>) =>
              (currentUser' = <<>> /\ view' = "landing")]_vars

\* The modelled tab signed up, which set the pointer; the slot is empty again,
\* which only a logout does; and the start that ran last made no getUser call
\* and ended with no session.
C13_Witness ==
    /\ \E u \in users : u.name = AppName
    /\ pointer = <<>> /\ currentUser = <<>> /\ view = "landing"
    /\ ~isInitializing /\ task[AppProc] = Idle
    /\ ret.by = "initApp" /\ ret.op = "getUserByEmail"

\* C14: the views 'dashboard' and 'admin' occur only with a current user; the
\* administrator screen is on screen only for a current user of role ADMIN;
\* the view 'admin' with any other identity shows the standard dashboard.
C14_ViewNeedsUser ==
    /\ view \in {"dashboard", "admin"} => currentUser # <<>>
    /\ Screen = "AdminDashboard" => (currentUser # <<>> /\ currentUser[1].role = "ADMIN")
    /\ \A u \in User : u.role # "ADMIN" => RenderContent("admin", <<u>>) = "Dashboard"

\* The administrator is logged in and sees the administrator screen, while a
\* handler of a form that has left the screen is still pending.
C14_Witness ==
    /\ view = "admin" /\ Screen = "AdminDashboard"
    /\ task[AppProc].prog \in {"Login", "Signup"}

\* C17: when the saveUser of a signup is refused because another id holds the
\* email, the form shows the 'email already exists' message and no session is
\* started.
C17_SurfacesEmailExists ==
    [][(SignupSave /\ EmailIndexRefuses(users, task[AppProc].loc.user)) =>
         /\ task[AppProc].loc.mounted => error' = ExistsMsg
         /\ UNCHANGED <<currentUser, pointer, view>>]_vars

\* C18: a signup with a password of fewer than 6 characters makes no store
\* call; a signup whose email is held makes no saveUser call; both store no
\* identity, leave current user, pointer slot and view as they were, and set
\* the error of the form (of the form that is still on screen).
C18_SignupValidation ==
    [][/\ \A email \in Emails : \A password \in Passwords :
            (SignupSubmit(email, password) /\ PasswordLength(password) < 6) =>
               /\ UNCHANGED <<task, opens, ret, pre, users>>
               /\ UNCHANGED <<currentUser, pointer, view>>
               /\ error' = PasswordMsg
       /\ (SignupCheck /\ \E u \in users : u.email = task[AppProc].loc.email) =>
               /\ task'[AppProc] = Idle
               /\ UNCHANGED <<users, currentUser, pointer, view>>
               /\ task[AppProc].loc.mounted => error' = ExistsMsg]_vars

\* The form shows the password message and no handler is pending.
C18_Witness ==
    /\ error = PasswordMsg /\ Screen = "Signup" /\ task[AppProc] = Idle
    /\ ret.by # "Signup"

\* The step in which Login.handleSubmit of the modelled tab ends.
LoginEnds == task[AppProc].prog = "Login" /\ task'[AppProc] = Idle

\* C24: the result of a login does not depend on the password.  Whatever
\* password a submission carries, it ends in the session of the stored
\* identity that has its email (the administrator included) when there is
\* one, and otherwise in the 'invalid email or password' error of the form
\* and no session.
C24_PasswordIgnored ==
    [][LoginEnds =>
         LET stored == {u \in users : u.email = task[AppProc].loc.email}
         IN  /\ task[AppProc].loc.password \in Passwords
             /\ IF stored # {}
                THEN \E u \in stored : currentUser' = <<u>> /\ pointer' = <<u.id>>
                                       /\ view' = HomeView(u)
                ELSE /\ UNCHANGED <<currentUser, pointer, view>>
                     /\ task[AppProc].loc.mounted => error' = InvalidLoginMsg]_vars

\* The modelled tab is in the session of an identity that another tab signed
\* up, after a login whose lookup found it.
C24_Witness ==
    /\ ret.by = "Login" /\ ret.op = "getUserByEmail" /\ ret.val = currentUser
    /\ currentUser # <<>> /\ currentUser[1].name # AppName
    /\ currentUser[1].role = "USER" /\ view = "dashboard"
    /\ task[AppProc] = Idle

\* Initialisation is over, nobody is logged in and the pointer slot holds an id.
StalePointer == ~isInitializing /\ currentUser = <<>> /\ pointer # <<>>

C22_IdentitiesImmutable == [][\A u \in users : u \in users']_vars

----------------------------------------------------------------------------
(* Properties under storage failures *)

\* C16: a store operation that a storage failure hits (failed open, failed
\* request, aborted write transaction) rejects with the error and leaves the
\* records as they were; an operation reported successful has its write in the
\* store.
C16_FailuresReject ==
    /\ ~ret.ok => (ret.val # <<>> /\ Snapshot = pre)
    /\ (ret.ok /\ ret.op = "saveScan") => ret.arg \in scans
    /\ (ret.ok /\ ret.op = "deleteScan") => ret.arg \notin Ids(scans)

----------------------------------------------------------------------------
(* Properties of the AI adapter *)

\* The texts that are valid JSON.
ValidJson == {<<"1">>, <<"{", "}">>, <<"{", "k:v", "}">>}

\* C19: identifyBreed and detectAnimalDiseases throw an error, and return
\* nothing, for a response whose text is missing, empty or not valid JSON;
\* generateSimilarBreedImage throws, and returns nothing, for a response of
\* which no part carries image data.
C19_NoPayloadFails ==
    /\ (ai.fn \in {"identifyBreed", "detectAnimalDiseases"}
          /\ (~ai.response.defined \/ ai.response.chars \notin ValidJson))
        => (~ai.result.ok /\ ai.result.err # "" /\ ai.result.val = <<>>)
    /\ (ai.fn = "generateSimilarBreedImage"
          /\ \A c \in 1..Len(ai.response.candidates) :
               \A i \in 1..Len(ai.response.candidates[c].parts) :
                  ai.response.candidates[c].parts[i].inlineData = <<>>)
        => (~ai.result.ok /\ ai.result.err # "" /\ ai.result.val = <<>>)

\* generateSimilarBreedImage threw for a response with parts, none an image.
C19_Witness ==
    /\ ai.fn = "generateSimilarBreedImage" /\ ~ai.result.ok
    /\ ai.response.candidates # <<>>
    /\ Len(ai.response.candidates[1].parts) = 2

----------------------------------------------------------------------------
(* Properties of the Dashboard *)

\* C15: a store request that fails for handleIdentify, handlePurchase,
\* handleReturn or handleHealthCheck leaves the result, the analysis and the
\* cart on screen as they were, and a message is on screen after it.
C15_FailureKeepsState ==
    [][\A p \in {"identify", "purchase", "return", "health"} :
         (task[p].phase = "req" /\ task'[p] = Idle /\ ~ret'.ok) =>
            /\ dash'.currentResult = dash.currentResult
            /\ dash'.healthAnalysis = dash.healthAnalysis
            /\ dash'.shoppingCart = dash.shoppingCart
            /\ dash'.alert = dash.alert
            /\ dash'.error # <<>>]_vars

\* C20: when a purchase of the displayed scan is clicked while the health
\* check of that scan awaits its analysis, and the purchase has been stored,
\* the save of the health check stores a record that has the analysis and not
\* the purchase; that step sets no error and shows no alert.
C20_LostUpdate ==
    [][(/\ task["health"].step = "save" /\ task'["health"] = Idle /\ ret'.ok
        /\ task["health"].loc.raced
        /\ task["health"].loc.captured.isPurchased # <<TRUE>>
        /\ task["purchase"] = Idle) =>
          /\ \E r \in scans' :
                /\ r.id = task["health"].loc.captured.id
                /\ r.healthAnalysis # <<>>
                /\ r.isPurchased # <<TRUE>>
          /\ dash'.error = dash.error /\ dash'.alert = dash.alert]_vars

\* Both handlers have finished: the purchase was stored and announced, the scan
\* is in the cart, no error is on screen, and the save of the health check has
\* replaced the purchased record by one without the purchase.
C20_Witness ==
    /\ \A p \in DashProcs : task[p] = Idle
    /\ ret.by = "handleHealthCheck" /\ ret.op = "saveScan" /\ ret.ok
    /\ \E r \in pre.scans :
          r.id = ret.arg.id /\ r.isPurchased = <<TRUE>> /\ r.healthAnalysis = <<>>
    /\ ret.arg \in scans
    /\ ret.arg.isPurchased = <<>> /\ ret.arg.healthAnalysis # <<>>
    /\ ret.arg.id \in ListIds(dash.shoppingCart)
    /\ dash.error = <<>> /\ dash.alert = SuccessAlert

\* C26: every entry of the cart has a record in the scans collection with its
\* id, the user of the Dashboard as owner, and isPurchased true.
C26_CartMatchesStore ==
    \A i \in 1..Len(dash.shoppingCart) :
       \E r \in scans :
          /\ r.id = dash.shoppingCart[i].id
          /\ r.userId = DashUser
          /\ r.isPurchased = <<TRUE>>

\* C27: no two entries of the cart have the same scan id.
C27_CartHasNoDuplicates ==
    \A i, j \in 1..Len(dash.shoppingCart) :
       dash.shoppingCart[i].id = dash.shoppingCart[j].id => i = j

\* The result on screen is one that handleReturn has marked as returned.
ReturnedOnScreen == dash.currentResult # <<>> /\ dash.currentResult[1].isPurchased = <<FALSE>>

\* C29: while the result that handleReturn deleted is still on screen, no
\* handlePurchase and no handleHealthCheck writes a record with its id back
\* into the scans collection.
C29_ReturnedStaysDeleted ==
    [][(/\ ReturnedOnScreen
        /\ dash.currentResult[1].id \notin Ids(scans)
        /\ dash.currentResult[1].id \in Ids(scans'))
          => ret'.by \notin {"handlePurchase", "handleHealthCheck"}]_vars

\* C28: a result on screen comes with a selected image, which is the image
\* of the result; and the image a health check sends for analysis is the image
\* of the scan it updates.
C28_ResultMatchesImage ==
    /\ dash.currentResult # <<>> =>
          dash.selectedImage = <<dash.currentResult[1].imageUrl>>
    /\ task["health"].prog = "handleHealthCheck" =>
          task["health"].loc.image = task["health"].loc.captured.imageUrl

\* C21: a record that handleIdentify, handlePurchase or handleHealthCheck
\* stores has as userId the id of the user whose Dashboard the handler was
\* started in, also when that user has logged out and another has logged in
\* before the handler ends; and no step changes the userId, the timestamp or
\* the imageUrl of the record stored under an id.
C21_ScansKeepOwner ==
    [][/\ \A p \in {"identify", "purchase", "health"} :
            (/\ task[p].phase = "req" /\ task'[p] = Idle
             /\ ret'.op = "saveScan" /\ ret'.by = task[p].prog /\ ret'.ok) =>
                /\ ret'.arg \in scans'
                /\ ret'.arg.userId = Owner(p)
       /\ \A r \in scans : \A w \in scans' :
            w.id = r.id =>
               /\ w.userId = r.userId
               /\ w.timestamp = r.timestamp
               /\ w.imageUrl = r.imageUrl]_vars

\* The health check that the first user started has stored its record, with
\* the analysis and that user as owner, while the second user is logged in and
\* has a scan of their own in the store.
C21_Witness ==
    /\ ret.by = "handleHealthCheck" /\ ret.op = "saveScan" /\ ret.ok
    /\ ret.arg \in scans /\ ret.arg.userId = DashUser
    /\ ret.arg.healthAnalysis # <<>>
    /\ currentUser = <<OtherUserRecord>>
    /\ \E r \in scans : r.userId = OtherUserRecord.id

\* C30: initApp ends, whether its steps succeed or one of them rejects: the
\* loading screen goes away.  Its steps run in order: seedAdmin and the
\* session restore find the database open, and the lookup of the session
\* restore finds the administrator that seedAdmin looked for.  When a step
\* rejects, the start ends with no current user and the view 'landing'.
C30_InitTerminates ==
    /\ <>(~isInitializing)
    /\ [](task[AppProc].step \in {"seedGet", "seedPut", "restore"} =>
            dbHandle = "open")
    /\ [](task[AppProc].step = "restore" => \E u \in users : u.email = AdminEmail)
    /\ [][(InitFinishes /\ ~ret'.ok) =>
            (currentUser' = <<>> /\ view' = "landing")]_vars

\* The start has ended after the lookup of the session restore rejected: the
\* slot holds the id of a stored identity, and nobody is logged in.
C30_Witness ==
    /\ ~isInitializing /\ task[AppProc] = Idle
    /\ ret.by = "initApp" /\ ret.op = "getUser" /\ ~ret.ok
    /\ ret.arg \in Ids(users)
    /\ currentUser = <<>> /\ view = "landing"

\* C23: handleListen issues a speech request only when it finds the
\* already-playing flag clear, and sets the flag then; a payload that yields
\* no buffer (a call that throws, the empty string, text that is not base64,
\* less than one frame) starts no playback and clears the flag; and a flag
\* that is set is cleared again.
C23_PlayingFlagClears ==
    /\ [][(task["listen"] = Idle /\ task'["listen"] # Idle) =>
            (~dash.isPlayingAudio /\ dash'.isPlayingAudio)]_vars
    /\ [][\A response \in AudioResponses :
            (SpeechReturns(response) /\ response.data \in {<<>>, <<EmptyText>>}) =>
               (~dash'.isPlayingAudio /\ dash'.playing = dash.playing)]_vars
    /\ (dash.isPlayingAudio ~> ~dash.isPlayingAudio)

\* The speech model answered without audio data, the empty payload yielded no
\* buffer, and the flag that the call had set is clear again.
C23_Witness ==
    /\ ai.fn = "generateBreedAudio"
    /\ ~ai.response.threw /\ ai.response.data = <<>>
    /\ ~ai.result.ok /\ ai.result.err = "NotSupportedError"
    /\ task["listen"] = Idle /\ ~dash.isPlayingAudio /\ dash.playing = 0
====
